---- MODULE Spec2Model ----
(***************************************************************************)
(* create2crunch: the configuration layer (config_file.rs, config_args.rs), *)
(* the pipeline resolver (process_config.rs) and the binary's entry point  *)
(* (main.rs), as a state machine.                                          *)
(*                                                                         *)
(* Conventions.  An Option<T> is a set with at most one element: {} is     *)
(* None and {v} is Some(v).  A Result is a record [ok, err, val].  The text *)
(* of a bin file is a sequence of tokens: <<"hex", h>> is a run of hex     *)
(* digits and <<"ph", n>> is the placeholder ${n}.                         *)
(***************************************************************************)
EXTENDS Integers, Sequences, FiniteSets, TLC

\* ---------------------------------------------------------------- bounds
MaxTargets == 3
MaxStopTargets == 2
MaxRefs == 2
MaxDependents == 1

\* ------------------------------------------------------------ vocabulary
PlaceholderNames == {"X", "Y"}
TargetNames == <<"A", "B", "C", "D">>

Ok(v) == [ok |-> TRUE, err |-> <<>>, val |-> v]
Err(e) == [ok |-> FALSE, err |-> e, val |-> <<>>]
Unit == <<>>

Hex(h) == <<"hex", h>>
Ph(n) == <<"ph", n>>

\* The captures of the regex \$\{(\w+)\} over a bin text, in order.
RECURSIVE captures_iter(_)
captures_iter(bin_content) ==
    IF bin_content = <<>> THEN <<>>
    ELSE LET tok == Head(bin_content)
             rest == captures_iter(Tail(bin_content))
         IN IF tok[1] = "ph" THEN <<tok[2]>> \o rest ELSE rest

\* -------------------------------------------------- ConfigFile validation
\* validate_stop_points: every target has stop_thresholds with at least one
\* of leading_zeroes / total_zeroes; the first offender is reported.
RECURSIVE validate_stop_points_from(_, _)
validate_stop_points_from(targets, t) ==
    IF t > Len(targets) THEN Ok(Unit)
    ELSE LET target == targets[t] IN
         IF target.stop_thresholds # {}
         THEN LET stop_thresholds == CHOOSE st \in target.stop_thresholds : TRUE IN
              IF stop_thresholds.leading_zeroes = {} /\ stop_thresholds.total_zeroes = {}
              THEN Err(<<"does not have any stop points defined", target.name>>)
              ELSE validate_stop_points_from(targets, t + 1)
         ELSE Err(<<"does not have any stop points defined", target.name>>)

validate_stop_points(self) == validate_stop_points_from(self.targets, 1)

\* A self-reference check that never fires.
IsOwnPlaceholderNever(target, placeholder) == FALSE

\* The two checks validate_placeholders makes on one captured placeholder.
PlaceholderDefined(self, placeholder) ==
    \E j \in 1..Len(self.targets) : self.targets[j].placeholder_name = {placeholder}

IsOwnPlaceholder(target, placeholder) ==
    target.placeholder_name = {placeholder}

\* A validation that looks at the first capture of a bin file only
\* (Regex::captures in place of captures_iter).
validate_captures_first_only(self, target, caps, k) ==
    IF caps = <<>> THEN Ok(Unit)
    ELSE IF ~PlaceholderDefined(self, caps[1])
    THEN Err(<<"Missing placeholder", caps[1]>>)
    ELSE IF IsOwnPlaceholder(target, caps[1])
    THEN Err(<<"Circular dependency detected for placeholder", caps[1]>>)
    ELSE Ok(Unit)

\* The inner loop of validate_placeholders over the captures of one bin file.
RECURSIVE validate_captures(_, _, _, _)
validate_captures(self, target, caps, k) ==
    IF k > Len(caps) THEN Ok(Unit)
    ELSE LET placeholder == caps[k] IN
         IF ~PlaceholderDefined(self, placeholder)
         THEN Err(<<"Missing placeholder", placeholder>>)
         ELSE IF IsOwnPlaceholder(target, placeholder)
         THEN Err(<<"Circular dependency detected for placeholder", placeholder>>)
         ELSE validate_captures(self, target, caps, k + 1)

\* A validation that reports the failure of the last failing target.
RECURSIVE validate_placeholders_last(_, _, _)
validate_placeholders_last(self, files, t) ==
    IF t > Len(self.targets) THEN Ok(Unit)
    ELSE LET target == self.targets[t]
             rest == validate_placeholders_last(self, files, t + 1) IN
         IF target.name \notin DOMAIN files
         THEN Err(<<"Failed to read bin file", target.name>>)
         ELSE IF ~rest.ok THEN rest
         ELSE validate_captures(self, target, captures_iter(files[target.name]), 1)

\* The outer loop of validate_placeholders over the targets.
RECURSIVE validate_placeholders_from(_, _, _)
validate_placeholders_from(self, files, t) ==
    IF t > Len(self.targets) THEN Ok(Unit)
    ELSE LET target == self.targets[t] IN
         IF target.name \notin DOMAIN files
         THEN Err(<<"Failed to read bin file", target.name>>)
         ELSE LET r == validate_captures(self, target, captures_iter(files[target.name]), 1) IN
              IF r.ok THEN validate_placeholders_from(self, files, t + 1) ELSE r

validate_placeholders(self, files) == validate_placeholders_from(self, files, 1)

\* The loop of ConfigFile::new that checks every target's bin file exists.
RECURSIVE bin_files_exist_from(_, _, _)
bin_files_exist_from(targets, files, t) ==
    IF t > Len(targets) THEN Ok(Unit)
    ELSE IF targets[t].name \notin DOMAIN files
         THEN Err(<<"Bin file does not exist", targets[t].name>>)
         ELSE bin_files_exist_from(targets, files, t + 1)

\* A hex argument is [valid, bytes]: whether the string is hex digits (of even
\* length), and the number of bytes it then spells.
HexString(valid, bytes) == [valid |-> valid, bytes |-> bytes]

\* hex::decode of an argument, then try_into a fixed array of `width` bytes.
decode_fixed(string, width, what) ==
    IF ~string.valid THEN Err(<<"could not decode", what>>)
    ELSE IF string.bytes # width THEN Err(<<"invalid length for", what>>)
    ELSE Ok(string)

\* ConfigFile::new on a parsed raw config: addresses, bin files, stop points,
\* placeholders, in the order of the code.
ConfigFile_new(raw, files) ==
    LET f == decode_fixed(raw.factory_address, 20, "factory address argument")
        c == decode_fixed(raw.calling_address, 20, "calling address argument")
        e == bin_files_exist_from(raw.targets, files, 1)
        s == validate_stop_points(raw)
        p == validate_placeholders(raw, files)
    IN IF ~raw.factory_address.valid THEN f
       ELSE IF ~raw.calling_address.valid THEN c
       ELSE IF ~f.ok THEN f
       ELSE IF ~c.ok THEN c
       ELSE IF ~e.ok THEN e
       ELSE IF ~s.ok THEN s
       ELSE IF ~p.ok THEN p
       ELSE Ok(raw)

\* ------------------------------------------------------------ to_run_config
\* hex::encode of an address: 40 lowercase hex digits, no 0x prefix.
hex_encode(value) == Hex(value)

\* A replacement that handles one placeholder of the map only.
replace_placeholders_one(bin_content, placeholders) ==
    [k \in 1..Len(bin_content) |->
        IF /\ bin_content[k][1] = "ph"
           /\ bin_content[k][2] \in DOMAIN placeholders
           /\ bin_content[k][2] = CHOOSE n \in DOMAIN placeholders : TRUE
        THEN hex_encode(placeholders[bin_content[k][2]])
        ELSE bin_content[k]]

\* str::replace of every placeholder of the map by its address, over the text.
replace_placeholders(bin_content, placeholders) ==
    [k \in 1..Len(bin_content) |->
        IF bin_content[k][1] = "ph" /\ bin_content[k][2] \in DOMAIN placeholders
        THEN hex_encode(placeholders[bin_content[k][2]])
        ELSE bin_content[k]]

\* hex::decode succeeds on text made of hex digits only.
hex_decode(text) ==
    IF \A k \in 1..Len(text) : text[k][1] = "hex" THEN Ok(text) ELSE Err(<<"invalid hex">>)

keccak256(bytes) == <<"keccak256", bytes>>

\* The two unwraps that build the thresholds of the RunConfig.
leading_zeroes_unwrap(stop_thresholds) ==
    IF stop_thresholds.leading_zeroes = {} THEN Err(<<"panic", "unwrap on None: leading_zeroes">>)
    ELSE Ok(CHOOSE v \in stop_thresholds.leading_zeroes : TRUE)

total_zeroes_unwrap(stop_thresholds) ==
    IF stop_thresholds.total_zeroes = {} THEN Err(<<"panic", "unwrap on None: total_zeroes">>)
    ELSE Ok(CHOOSE v \in stop_thresholds.total_zeroes : TRUE)

\* to_run_config: Ok(RunConfig), or Err(<<"panic", ...>>) where an unwrap fails.
to_run_config(self, files, target, placeholders) ==
    IF target.name \notin DOMAIN files THEN Err(<<"panic", "read_to_string">>)
    ELSE LET bin_content == replace_placeholders(files[target.name], placeholders)
             hex_bin == hex_decode(bin_content)
         IN IF ~hex_bin.ok THEN Err(<<"panic", "hex::decode">>)
            ELSE IF target.stop_thresholds = {} THEN Err(<<"panic", "unwrap on None: stop_thresholds">>)
            ELSE LET stop_thresholds == CHOOSE st \in target.stop_thresholds : TRUE
                     lz == leading_zeroes_unwrap(stop_thresholds)
                     tz == total_zeroes_unwrap(stop_thresholds)
                 IN IF ~lz.ok THEN lz
                    ELSE IF ~tz.ok THEN tz
                    ELSE Ok([factory_address |-> self.factory_address,
                             calling_address |-> self.calling_address,
                             init_code_hash |-> keccak256(hex_bin.val),
                             leading_zeroes_threshold |-> lz.val,
                             total_zeroes_threshold |-> tz.val,
                             early_stop |-> TRUE])

\* A can_process that looks at the first captured placeholder only.
can_process_first_only(self, files, target, placeholders) ==
    \A k \in 1..Len(captures_iter(files[target.name])) :
        k = 1 => captures_iter(files[target.name])[k] \in DOMAIN placeholders

\* can_process: every captured placeholder of the target's bin file is a key
\* of the placeholders map.
can_process(self, files, target, placeholders) ==
    \A k \in 1..Len(captures_iter(files[target.name])) :
        captures_iter(files[target.name])[k] \in DOMAIN placeholders

\* ------------------------------------------------------------------ engines
\* A string of decimal digits, as format!("{}", n) writes it.
RECURSIVE to_string(_)
to_string(n) == IF n < 10 THEN <<n>> ELSE to_string(n \div 10) \o <<n % 10>>

\* Ord on String: lexicographic, a proper prefix is smaller.
RECURSIVE string_le(_, _)
string_le(a, b) ==
    IF a = <<>> THEN TRUE
    ELSE IF b = <<>> THEN FALSE
    ELSE IF Head(a) # Head(b) THEN Head(a) < Head(b)
    ELSE string_le(Tail(a), Tail(b))

Candidate(salt, address, leading, total) ==
    [salt |-> salt, address |-> address, leading |-> leading, total |-> total,
     reward |-> to_string(leading * 20 + total)]

\* A candidate is reportable iff it meets both thresholds (255 disables total).
Reportable(c, run_config) ==
    /\ c.leading >= run_config.leading_zeroes_threshold
    /\ \/ run_config.total_zeroes_threshold = 255
       \/ c.total >= run_config.total_zeroes_threshold

\* The result lists an engine run may return.
ResultLists ==
    { <<Candidate(<<1>>, "a1", 3, 5), Candidate(<<2>>, "a2", 3, 5)>>,
      <<Candidate(<<1>>, "a1", 5, 5), Candidate(<<3>>, "a3", 4, 6)>> }

\* run(RunConfig) -> list<Candidate>: a list of reportable candidates, or an
\* engine fault.
engine_run(run_config) ==
    { Ok(results) : results \in
        { l \in ResultLists : \A k \in 1..Len(l) : Reportable(l[k], run_config) } }
    \cup { Err(<<"engine fault">>) }

cpu(run_config) == engine_run(run_config)
gpu(run_config, device) == engine_run(run_config)

\* Iterator::max_by_key(|address| &address.reward): the last maximal element.
RECURSIVE max_by_key_from(_, _, _)
max_by_key_from(results, k, best) ==
    IF k > Len(results) THEN best
    ELSE max_by_key_from(results, k + 1,
            IF string_le(best.reward, results[k].reward) THEN results[k] ELSE best)

max_by_key(results) == max_by_key_from(results, 2, results[1])

\* Vec::remove(i) for each processed index, last first (indices are 1-based here).
RemoveAt(v, i) == [k \in 1..(Len(v) - 1) |-> IF k < i THEN v[k] ELSE v[k + 1]]

\* A removal that deletes the last processed index only.
remove_processed_last(remaining, processed_indices) ==
    IF processed_indices = <<>> THEN remaining
    ELSE RemoveAt(remaining, processed_indices[Len(processed_indices)])

RECURSIVE remove_processed(_, _)
remove_processed(remaining, processed_indices) ==
    IF processed_indices = <<>> THEN remaining
    ELSE remove_processed(RemoveAt(remaining, processed_indices[Len(processed_indices)]),
                          SubSeq(processed_indices, 1, Len(processed_indices) - 1))

\* An insert that drops the new entry.
insert_dropped(map, key, value) == map

\* HashMap::insert
insert(map, key, value) ==
    [k \in DOMAIN map \cup {key} |-> IF k = key THEN value ELSE map[k]]

EmptyMap == [k \in {} |-> ""]

\* --------------------------------------------------------------------- state
VARIABLES
    args,               \* argv of the binary (<<>> for a caller of the library)
    config_file,        \* the config file as parsed from TOML
    bin_files,          \* bin_folder: file name -> text
    lock,               \* holder of the exclusive lock on the output file, 0 if free
    output,             \* lines of address_per_contracts.txt
    pc,                 \* per session: position in the code
    computed_addresses, \* per session: placeholder name -> address
    remaining_targets,  \* per session
    initial_len,        \* per session
    processed_indices,  \* per session
    i,                  \* per session: index of the for loop over remaining_targets
    run_config,         \* per session: Option<RunConfig> handed to the engine
    results,            \* per session: the candidates the engine returned
    result,             \* per session: Option<Candidate> picked by max_by_key
    ret,                \* per session: <<>> while running, else the outcome
    pass,               \* per session: number of passes of the while loop begun
    mined               \* per session: the targets the engine returned results for

vars == <<args, config_file, bin_files, lock, output, pc, computed_addresses,
          remaining_targets, initial_len, processed_indices, i, run_config,
          results, result, ret, pass, mined>>

env == <<args, config_file, bin_files>>
locals == <<computed_addresses, remaining_targets, initial_len, processed_indices,
            i, run_config, results, result, pass, mined>>

Sessions == DOMAIN pc

\* ------------------------------------------------------------ initial states
\* The targets and the bin folder built from one choice per target:
\* [placeholder_name, refs, stop_thresholds], the k-th target named TargetNames[k].
Targets(ch) ==
    [k \in 1..Len(ch) |->
        [name |-> TargetNames[k],
         placeholder_name |-> ch[k].placeholder_name,
         stop_thresholds |-> ch[k].stop_thresholds]]

BinText(refs) == <<Hex("6080")>> \o [k \in 1..Len(refs) |-> Ph(refs[k])]

BinFolder(ch) == [n \in {TargetNames[k] : k \in 1..Len(ch)} |->
                    BinText(ch[CHOOSE k \in 1..Len(ch) : TargetNames[k] = n].refs)]

\* Sequences of distinct placeholder names, at most MaxRefs long.
RefSeqs ==
    { r \in UNION { [1..n -> PlaceholderNames] : n \in 0..MaxRefs } :
        \A a, b \in 1..Len(r) : a # b => r[a] # r[b] }

OptionOf(S) == {{}} \cup {{v} : v \in S}

StopBoth == [leading_zeroes |-> {3}, total_zeroes |-> {5}]

GoodAddress == HexString(TRUE, 20)

BadHexAddress == HexString(FALSE, 0)
ShortAddress == HexString(TRUE, 19)

\* The values a u8 threshold takes in the configs and arguments explored.
ThresholdValues == {0, 20, 21, 255}

\* Targets that vary in placeholder and references, with a stop_thresholds
\* that validate_stop_points accepts.
PipelineChoices ==
    [placeholder_name : OptionOf(PlaceholderNames), refs : RefSeqs,
     stop_thresholds : {{StopBoth}}]

\* Targets without placeholders that vary in their stop_thresholds.
StopPointChoices ==
    [placeholder_name : {{}}, refs : {<<>>},
     stop_thresholds : OptionOf([leading_zeroes : OptionOf(ThresholdValues),
                                 total_zeroes : OptionOf(ThresholdValues)])]

ChoiceSeqs(choices, max) == UNION { [1..n -> choices] : n \in 0..max }

\* The state in which `sessions` sessions are about to load the same config.
InitSessions(sessions, start) ==
    /\ lock = 0
    /\ output = <<>>
    /\ pc = [s \in sessions |-> start]
    /\ computed_addresses = [s \in sessions |-> EmptyMap]
    /\ remaining_targets = [s \in sessions |-> <<>>]
    /\ initial_len = [s \in sessions |-> 0]
    /\ processed_indices = [s \in sessions |-> <<>>]
    /\ i = [s \in sessions |-> 1]
    /\ run_config = [s \in sessions |-> {}]
    /\ results = [s \in sessions |-> <<>>]
    /\ result = [s \in sessions |-> {}]
    /\ ret = [s \in sessions |-> <<>>]
    /\ pass = [s \in sessions |-> 0]
    /\ mined = [s \in sessions |-> <<>>]

\* One session of the library's resolver: on a pipeline of targets (CPU
\* engine); on targets that vary in their stop points, under either engine; or
\* on a config whose addresses do not decode.
Init ==
    /\ args = <<>>
    /\ \/ \E ch \in ChoiceSeqs(PipelineChoices, MaxTargets) :
             /\ config_file = [factory_address |-> GoodAddress,
                               calling_address |-> GoodAddress,
                               gpu_device |-> 255,
                               targets |-> Targets(ch)]
             /\ bin_files = BinFolder(ch)
       \/ \E ch \in ChoiceSeqs(StopPointChoices, MaxStopTargets), device \in {255, 0} :
             /\ config_file = [factory_address |-> GoodAddress,
                               calling_address |-> GoodAddress,
                               gpu_device |-> device,
                               targets |-> Targets(ch)]
             /\ bin_files = BinFolder(ch)
       \/ \E f, c \in {GoodAddress, BadHexAddress, ShortAddress} :
             /\ config_file = [factory_address |-> f,
                               calling_address |-> c,
                               gpu_device |-> 255,
                               targets |-> <<>>]
             /\ bin_files = BinFolder(<<>>)
    /\ InitSessions({1}, "load")

\* ------------------------------------------------- a caller of the library
\* ConfigFile::new(path), then process_config(config_file) if it returned Ok.
LoadConfigFile(s) ==
    /\ pc[s] = "load"
    /\ LET r == ConfigFile_new(config_file, bin_files) IN
         IF r.ok
         THEN /\ pc' = [pc EXCEPT ![s] = "process_config"]
              /\ ret' = ret
         ELSE /\ pc' = [pc EXCEPT ![s] = "rejected"]
              /\ ret' = [ret EXCEPT ![s] = <<"Err">> \o r.err]
    /\ UNCHANGED <<env, lock, output, locals>>

\* ------------------------------------- process_config (process_config.rs)
\* Lines 14-28: open the output file, the empty map, the clone of the targets.
ProcessConfig(s) ==
    /\ pc[s] = "process_config"
    /\ computed_addresses' = [computed_addresses EXCEPT ![s] = EmptyMap]
    /\ remaining_targets' = [remaining_targets EXCEPT ![s] = config_file.targets]
    /\ pc' = [pc EXCEPT ![s] = "header_lock"]
    /\ UNCHANGED <<env, lock, output, initial_len, processed_indices, i, run_config,
                   results, result, ret, pass, mined>>

\* The three bracketed writes: header (29-31), record (74-77), footer (106-108).
WriteKind(at) ==
    CASE at \in {"header_lock", "header_write", "header_unlock"} -> "Start"
      [] at \in {"record_lock", "record_write", "record_unlock"} -> "Record"
      [] at \in {"footer_lock", "footer_write", "footer_unlock"} -> "End"

\* file.lock_exclusive(): blocks until no other holder.
LockExclusive(s) ==
    /\ pc[s] \in {"header_lock", "record_lock", "footer_lock"}
    /\ lock = 0
    /\ lock' = s
    /\ pc' = [pc EXCEPT ![s] = CASE pc[s] = "header_lock" -> "header_write"
                                  [] pc[s] = "record_lock" -> "record_write"
                                  [] pc[s] = "footer_lock" -> "footer_write"]
    /\ UNCHANGED <<env, output, locals, ret>>

\* The line the session is about to write.
Line(s) ==
    [kind |-> WriteKind(pc[s]),
     session |-> s,
     target |-> IF WriteKind(pc[s]) = "Record" THEN remaining_targets[s][i[s]].name ELSE "",
     init_hash |-> IF WriteKind(pc[s]) = "Record"
                   THEN (CHOOSE rc \in run_config[s] : TRUE).init_code_hash ELSE <<>>,
     candidate |-> IF WriteKind(pc[s]) = "Record" THEN result[s] ELSE {}]

\* writeln!(&file, ...): the file is opened in append mode.
WriteLn(s) ==
    /\ pc[s] \in {"header_write", "record_write", "footer_write"}
    /\ output' = Append(output, Line(s))
    /\ pc' = [pc EXCEPT ![s] = CASE pc[s] = "header_write" -> "header_unlock"
                                  [] pc[s] = "record_write" -> "record_unlock"
                                  [] pc[s] = "footer_write" -> "footer_unlock"]
    /\ UNCHANGED <<env, lock, locals, ret>>

\* An unlock that is skipped after a record.
UnlockNotAfterRecord(s) ==
    /\ pc[s] \in {"header_unlock", "record_unlock", "footer_unlock"}
    /\ lock' = IF lock = s /\ pc[s] # "record_unlock" THEN 0 ELSE lock
    /\ pc' = [pc EXCEPT ![s] = CASE pc[s] = "header_unlock" -> "while"
                                  [] pc[s] = "record_unlock" -> "store"
                                  [] pc[s] = "footer_unlock" -> "returned"]
    /\ ret' = IF pc[s] = "footer_unlock" THEN [ret EXCEPT ![s] = <<"Ok">>] ELSE ret
    /\ UNCHANGED <<env, output, locals>>

\* file.unlock(); after the footer's, process_config returns Ok(()).
Unlock(s) ==
    /\ pc[s] \in {"header_unlock", "record_unlock", "footer_unlock"}
    /\ lock' = IF lock = s THEN 0 ELSE lock
    /\ pc' = [pc EXCEPT ![s] = CASE pc[s] = "header_unlock" -> "while"
                                  [] pc[s] = "record_unlock" -> "store"
                                  [] pc[s] = "footer_unlock" -> "returned"]
    /\ ret' = IF pc[s] = "footer_unlock" THEN [ret EXCEPT ![s] = <<"Ok">>] ELSE ret
    /\ UNCHANGED <<env, output, locals>>

\* A loop that gives up after its first pass.
WhileOnce(s) ==
    /\ pc[s] = "while"
    /\ IF remaining_targets[s] # <<>> /\ pass[s] = 0
       THEN /\ initial_len' = [initial_len EXCEPT ![s] = Len(remaining_targets[s])]
            /\ processed_indices' = [processed_indices EXCEPT ![s] = <<>>]
            /\ i' = [i EXCEPT ![s] = 1]
            /\ pass' = [pass EXCEPT ![s] = @ + 1]
            /\ pc' = [pc EXCEPT ![s] = "for"]
       ELSE /\ pc' = [pc EXCEPT ![s] = "footer_lock"]
            /\ UNCHANGED <<initial_len, processed_indices, i, pass>>
    /\ UNCHANGED <<env, lock, output, computed_addresses, remaining_targets,
                   run_config, results, result, ret, mined>>

\* Lines 34-36: the test of the while loop and the start of a pass.
While(s) ==
    /\ pc[s] = "while"
    /\ IF remaining_targets[s] # <<>>
       THEN /\ initial_len' = [initial_len EXCEPT ![s] = Len(remaining_targets[s])]
            /\ processed_indices' = [processed_indices EXCEPT ![s] = <<>>]
            /\ i' = [i EXCEPT ![s] = 1]
            /\ pass' = [pass EXCEPT ![s] = @ + 1]
            /\ pc' = [pc EXCEPT ![s] = "for"]
       ELSE /\ pc' = [pc EXCEPT ![s] = "footer_lock"]
            /\ UNCHANGED <<initial_len, processed_indices, i, pass>>
    /\ UNCHANGED <<env, lock, output, computed_addresses, remaining_targets,
                   run_config, results, result, ret, mined>>

\* Lines 39-42: the next target of the pass is ready.
ForReady(s) ==
    /\ pc[s] = "for"
    /\ i[s] <= Len(remaining_targets[s])
    /\ can_process(config_file, bin_files, remaining_targets[s][i[s]], computed_addresses[s])
    /\ pc' = [pc EXCEPT ![s] = "to_run_config"]
    /\ UNCHANGED <<env, lock, output, locals, ret>>

\* Lines 39-41, 86: the next target of the pass is not ready and is skipped.
ForSkip(s) ==
    /\ pc[s] = "for"
    /\ i[s] <= Len(remaining_targets[s])
    /\ ~can_process(config_file, bin_files, remaining_targets[s][i[s]], computed_addresses[s])
    /\ i' = [i EXCEPT ![s] = @ + 1]
    /\ UNCHANGED <<env, lock, output, pc, computed_addresses, remaining_targets,
                   initial_len, processed_indices, run_config, results, result, ret, pass, mined>>

\* Lines 45-53: to_run_config, the init hash, and the call of the engine.
ToRunConfig(s) ==
    /\ pc[s] = "to_run_config"
    /\ LET r == to_run_config(config_file, bin_files, remaining_targets[s][i[s]],
                               computed_addresses[s]) IN
         IF r.ok
         THEN /\ run_config' = [run_config EXCEPT ![s] = {r.val}]
              /\ pc' = [pc EXCEPT ![s] = "engine"]
              /\ ret' = ret
         ELSE /\ run_config' = run_config
              /\ pc' = [pc EXCEPT ![s] = "panicked"]
              /\ ret' = [ret EXCEPT ![s] = r.err]
    /\ UNCHANGED <<env, lock, output, computed_addresses, remaining_targets, initial_len,
                   processed_indices, i, results, result, pass, mined>>

\* Lines 49-59: the engine returns; `?` returns its error, max_by_key picks.
EngineReturn(s) ==
    /\ pc[s] = "engine"
    /\ \E r \in (IF config_file.gpu_device = 255
                  THEN cpu(CHOOSE rc \in run_config[s] : TRUE)
                  ELSE gpu(CHOOSE rc \in run_config[s] : TRUE, config_file.gpu_device)) :
         IF r.ok
         THEN /\ results' = [results EXCEPT ![s] = r.val]
              /\ result' = [result EXCEPT ![s] = {max_by_key(r.val)}]
              /\ mined' = [mined EXCEPT ![s] =
                    Append(@, [target |-> remaining_targets[s][i[s]].name, pass |-> pass[s]])]
              /\ pc' = [pc EXCEPT ![s] = "record_lock"]
              /\ ret' = ret
         ELSE /\ pc' = [pc EXCEPT ![s] = "returned"]
              /\ ret' = [ret EXCEPT ![s] = <<"Err">> \o r.err]
              /\ UNCHANGED <<results, result, mined>>
    /\ UNCHANGED <<env, lock, output, computed_addresses, remaining_targets, initial_len,
                   processed_indices, i, run_config, pass>>

\* Lines 79-85: store the address under the target's placeholder, mark the index.
Store(s) ==
    /\ pc[s] = "store"
    /\ LET target == remaining_targets[s][i[s]] IN
         computed_addresses' =
           IF target.placeholder_name # {}
           THEN [computed_addresses EXCEPT ![s] =
                   insert(@, CHOOSE n \in target.placeholder_name : TRUE,
                          (CHOOSE c \in result[s] : TRUE).address)]
           ELSE computed_addresses
    /\ processed_indices' = [processed_indices EXCEPT ![s] = Append(@, i[s])]
    /\ i' = [i EXCEPT ![s] = @ + 1]
    /\ run_config' = [run_config EXCEPT ![s] = {}]
    /\ results' = [results EXCEPT ![s] = <<>>]
    /\ result' = [result EXCEPT ![s] = {}]
    /\ pc' = [pc EXCEPT ![s] = "for"]
    /\ UNCHANGED <<env, lock, output, remaining_targets, initial_len, ret, pass, mined>>

\* A removal step that never reports the lack of progress.
RemoveProcessedNoCheck(s) ==
    /\ pc[s] = "for"
    /\ i[s] > Len(remaining_targets[s])
    /\ remaining_targets' = [remaining_targets EXCEPT ![s] =
                                remove_processed(@, processed_indices[s])]
    /\ pc' = [pc EXCEPT ![s] = "while"]
    /\ UNCHANGED <<env, lock, output, computed_addresses, initial_len, processed_indices,
                   i, run_config, results, result, ret, pass, mined>>

\* A removal step that compares with the length of the whole target list.
RemoveProcessedWholeLen(s) ==
    /\ pc[s] = "for"
    /\ i[s] > Len(remaining_targets[s])
    /\ LET left == remove_processed(remaining_targets[s], processed_indices[s]) IN
         /\ remaining_targets' = [remaining_targets EXCEPT ![s] = left]
         /\ IF Len(left) = Len(config_file.targets)
            THEN /\ pc' = [pc EXCEPT ![s] = "returned"]
                 /\ ret' = [ret EXCEPT ![s] = <<"Err", "Unable to process all targets">>]
            ELSE /\ pc' = [pc EXCEPT ![s] = "while"]
                 /\ ret' = ret
    /\ UNCHANGED <<env, lock, output, computed_addresses, initial_len, processed_indices,
                   i, run_config, results, result, pass, mined>>

\* Lines 89-97: after the for loop, remove the processed targets; no progress
\* is the error.
RemoveProcessed(s) ==
    /\ pc[s] = "for"
    /\ i[s] > Len(remaining_targets[s])
    /\ LET left == remove_processed(remaining_targets[s], processed_indices[s]) IN
         /\ remaining_targets' = [remaining_targets EXCEPT ![s] = left]
         /\ IF Len(left) = initial_len[s]
            THEN /\ pc' = [pc EXCEPT ![s] = "returned"]
                 /\ ret' = [ret EXCEPT ![s] = <<"Err", "Unable to process all targets">>]
            ELSE /\ pc' = [pc EXCEPT ![s] = "while"]
                 /\ ret' = ret
    /\ UNCHANGED <<env, lock, output, computed_addresses, initial_len, processed_indices,
                   i, run_config, results, result, pass, mined>>

Next ==
    \/ \E s \in Sessions : LoadConfigFile(s)
    \/ \E s \in Sessions : ProcessConfig(s)
    \/ \E s \in Sessions : LockExclusive(s)
    \/ \E s \in Sessions : WriteLn(s)
    \/ \E s \in Sessions : Unlock(s)
    \/ \E s \in Sessions : While(s)
    \/ \E s \in Sessions : ForReady(s)
    \/ \E s \in Sessions : ForSkip(s)
    \/ \E s \in Sessions : ToRunConfig(s)
    \/ \E s \in Sessions : EngineReturn(s)
    \/ \E s \in Sessions : Store(s)
    \/ \E s \in Sessions : RemoveProcessed(s)

Spec == Init /\ [][Next]_vars

\* The targets of the configs on which termination is checked: at most one
\* reference per bin file, and a target that sets one threshold only.
LiveChoices ==
    { c \in PipelineChoices : Len(c.refs) <= 1 }
      \cup { [placeholder_name |-> {}, refs |-> <<>>,
               stop_thresholds |-> {[leading_zeroes |-> {0}, total_zeroes |-> {}]}] }

InitLive ==
    /\ args = <<>>
    /\ \E ch \in ChoiceSeqs(LiveChoices, MaxTargets) :
          /\ config_file = [factory_address |-> GoodAddress,
                            calling_address |-> GoodAddress,
                            gpu_device |-> 255,
                            targets |-> Targets(ch)]
          /\ bin_files = BinFolder(ch)
    /\ InitSessions({1}, "load")

\* A session that can take its next step takes it: the process keeps running
\* and every engine call returns.
SpecLive == InitLive /\ [][Next]_vars /\ WF_vars(Next)

\* --------------------------------------------------- two concurrent sessions
\* Targets of the configs that two concurrent sessions run: one target defines
\* the placeholder X, up to MaxDependents targets placed before or after it
\* reference X, and a config may lack the defining target.
Definer == [placeholder_name |-> {"X"}, refs |-> <<>>, stop_thresholds |-> {StopBoth}]

Dependent == [placeholder_name |-> {}, refs |-> <<"X">>, stop_thresholds |-> {StopBoth}]

ConcurrentChoices ==
    UNION { {deps \o <<Definer>>, <<Definer>> \o deps, deps} :
                deps \in ChoiceSeqs({Dependent}, MaxDependents) }

\* Two processes run the same config against the same output file.
InitTwo ==
    /\ args = <<>>
    /\ \E ch \in ConcurrentChoices :
          /\ config_file = [factory_address |-> GoodAddress,
                            calling_address |-> GoodAddress,
                            gpu_device |-> 255,
                            targets |-> Targets(ch)]
          /\ bin_files = BinFolder(ch)
    /\ InitSessions({1, 2}, "load")

SpecTwo == InitTwo /\ [][Next]_vars

\* ------------------------------------------------- CliArgsConfig (config_args.rs)
\* A command-line argument, by what the program can observe of the string:
\* whether it names an existing file, what hex::decode makes of it, and what
\* parse::<u8>() makes of it.
Arg(exists, hex, u8) == [exists |-> exists, hex |-> hex, u8 |-> u8]

PathArg == Arg(TRUE, HexString(FALSE, 0), {})
HexArg(bytes) == Arg(FALSE, HexString(TRUE, bytes), {})
JunkArg == Arg(FALSE, HexString(FALSE, 0), {})
U8Arg(v) == Arg(FALSE, HexString(FALSE, 0), {v})

\* args_iter.next() for the k-th argument, with the default of an optional one.
ArgOr(arguments, k, default) == IF k <= Len(arguments) THEN arguments[k] ELSE default

\* CliArgsConfig::new, in the order of the code's early returns.
CliArgsConfig_new(arguments) ==
    IF Len(arguments) < 2 THEN Err(<<"didn't get a factory_address argument">>)
    ELSE IF Len(arguments) < 3 THEN Err(<<"didn't get a calling_address argument">>)
    ELSE IF Len(arguments) < 4 THEN Err(<<"didn't get an init_code_hash argument">>)
    ELSE LET gpu_device_string == ArgOr(arguments, 5, U8Arg(255))
             leading_zeroes_threshold_string == ArgOr(arguments, 6, U8Arg(3))
             total_zeroes_threshold_string == ArgOr(arguments, 7, U8Arg(5))
             factory == decode_fixed(arguments[2].hex, 20, "factory address argument")
             calling == decode_fixed(arguments[3].hex, 20, "calling address argument")
             init == decode_fixed(arguments[4].hex, 32, "initialization code hash argument")
         IN IF ~arguments[2].hex.valid THEN factory
            ELSE IF ~arguments[3].hex.valid THEN calling
            ELSE IF ~arguments[4].hex.valid THEN init
            ELSE IF ~factory.ok THEN factory
            ELSE IF ~calling.ok THEN calling
            ELSE IF ~init.ok THEN init
            ELSE IF gpu_device_string.u8 = {} THEN Err(<<"invalid gpu device value">>)
            ELSE IF leading_zeroes_threshold_string.u8 = {}
                 THEN Err(<<"invalid leading zeroes threshold value supplied">>)
            ELSE IF total_zeroes_threshold_string.u8 = {}
                 THEN Err(<<"invalid total zeroes threshold value supplied">>)
            ELSE LET gpu_device == CHOOSE v \in gpu_device_string.u8 : TRUE
                     leading_zeroes_threshold ==
                         CHOOSE v \in leading_zeroes_threshold_string.u8 : TRUE
                     total_zeroes_threshold ==
                         CHOOSE v \in total_zeroes_threshold_string.u8 : TRUE
                 IN IF leading_zeroes_threshold > 20
                    THEN Err(<<"invalid value for leading zeroes threshold argument">>)
                    ELSE IF total_zeroes_threshold > 20 /\ total_zeroes_threshold # 255
                    THEN Err(<<"invalid value for total zeroes threshold argument">>)
                    ELSE Ok([factory_address |-> arguments[2].hex,
                             calling_address |-> arguments[3].hex,
                             init_code_hash |-> arguments[4].hex,
                             gpu_device |-> gpu_device,
                             leading_zeroes_threshold |-> leading_zeroes_threshold,
                             total_zeroes_threshold |-> total_zeroes_threshold])

\* CliArgsConfig::to_run_config (the code sets no early_stop: standalone mode).
cli_to_run_config(self) ==
    [factory_address |-> self.factory_address,
     calling_address |-> self.calling_address,
     init_code_hash |-> self.init_code_hash,
     leading_zeroes_threshold |-> self.leading_zeroes_threshold,
     total_zeroes_threshold |-> self.total_zeroes_threshold,
     early_stop |-> FALSE]

\* ------------------------------------------------------- the binary (main.rs)
\* main: usage error, or dispatch on whether args[1] names an existing file.
Main(s) ==
    /\ pc[s] = "main"
    /\ IF Len(args) < 2
       THEN /\ pc' = [pc EXCEPT ![s] = "exited"]
            /\ ret' = [ret EXCEPT ![s] = <<"exit1", "Usage">>]
       ELSE /\ pc' = [pc EXCEPT ![s] =
                    IF args[2].exists THEN "run_with_config_file" ELSE "run_with_args"]
            /\ ret' = ret
    /\ UNCHANGED <<env, lock, output, locals>>

\* run_with_args: parse the arguments, then start the engine.
RunWithArgs(s) ==
    /\ pc[s] = "run_with_args"
    /\ LET config == CliArgsConfig_new(args) IN
         IF config.ok
         THEN /\ run_config' = [run_config EXCEPT ![s] = {cli_to_run_config(config.val)}]
              /\ pc' = [pc EXCEPT ![s] = "cli_engine"]
              /\ ret' = ret
         ELSE /\ run_config' = run_config
              /\ pc' = [pc EXCEPT ![s] = "exited"]
              /\ ret' = [ret EXCEPT ![s] = <<"exit1", "Failed parsing arguments">> \o config.err]
    /\ UNCHANGED <<env, lock, output, computed_addresses, remaining_targets, initial_len,
                   processed_indices, i, results, result, pass, mined>>

\* run_with_args: the engine returns, Ok or an application error.
CliEngineReturn(s) ==
    /\ pc[s] = "cli_engine"
    /\ \E r \in (IF CliArgsConfig_new(args).val.gpu_device = 255
                  THEN cpu(CHOOSE rc \in run_config[s] : TRUE)
                  ELSE gpu(CHOOSE rc \in run_config[s] : TRUE,
                           CliArgsConfig_new(args).val.gpu_device)) :
         ret' = [ret EXCEPT ![s] = IF r.ok THEN <<"exit0">>
                                   ELSE <<"exit1", "application error">> \o r.err]
    /\ pc' = [pc EXCEPT ![s] = "exited"]
    /\ UNCHANGED <<env, lock, output, locals>>

\* run_with_config_file: load the configuration file.
RunWithConfigFile(s) ==
    /\ pc[s] = "run_with_config_file"
    /\ LET r == ConfigFile_new(config_file, bin_files) IN
         IF r.ok
         THEN /\ pc' = [pc EXCEPT ![s] = "main_process_config"]
              /\ ret' = ret
         ELSE /\ pc' = [pc EXCEPT ![s] = "exited"]
              /\ ret' = [ret EXCEPT ![s] =
                            <<"exit1", "Failed to load configuration file">> \o r.err]
    /\ UNCHANGED <<env, lock, output, locals>>

\* main.rs process_config, lines 67-71.
MainProcessConfig(s) ==
    /\ pc[s] = "main_process_config"
    /\ computed_addresses' = [computed_addresses EXCEPT ![s] = EmptyMap]
    /\ remaining_targets' = [remaining_targets EXCEPT ![s] = config_file.targets]
    /\ pc' = [pc EXCEPT ![s] = "main_while"]
    /\ UNCHANGED <<env, lock, output, initial_len, processed_indices, i, run_config,
                   results, result, ret, pass, mined>>

\* main.rs process_config, lines 74-76 and 123: the loop test; Ok(()) ends main.
MainWhile(s) ==
    /\ pc[s] = "main_while"
    /\ IF remaining_targets[s] # <<>>
       THEN /\ initial_len' = [initial_len EXCEPT ![s] = Len(remaining_targets[s])]
            /\ processed_indices' = [processed_indices EXCEPT ![s] = <<>>]
            /\ i' = [i EXCEPT ![s] = 1]
            /\ pass' = [pass EXCEPT ![s] = @ + 1]
            /\ pc' = [pc EXCEPT ![s] = "main_for"]
            /\ ret' = ret
       ELSE /\ pc' = [pc EXCEPT ![s] = "exited"]
            /\ ret' = [ret EXCEPT ![s] = <<"exit0">>]
            /\ UNCHANGED <<initial_len, processed_indices, i, pass>>
    /\ UNCHANGED <<env, lock, output, computed_addresses, remaining_targets,
                   run_config, results, result, mined>>

\* main.rs lines 80-85: the value of can_process, from the placeholder the
\* target defines.
main_can_process(target, computed) ==
    IF target.placeholder_name # {}
    THEN (CHOOSE n \in target.placeholder_name : TRUE) \in DOMAIN computed
    ELSE TRUE

\* main.rs lines 78-110: the body of the for loop computes can_process and
\* does nothing with it (the mining is commented out).
MainFor(s) ==
    /\ pc[s] = "main_for"
    /\ i[s] <= Len(remaining_targets[s])
    /\ LET can_process_value ==
             main_can_process(remaining_targets[s][i[s]], computed_addresses[s])
       IN i' = [i EXCEPT ![s] = @ + 1]
    /\ UNCHANGED <<env, lock, output, pc, computed_addresses, remaining_targets,
                   initial_len, processed_indices, run_config, results, result, ret, pass, mined>>

\* main.rs lines 112-120 and 60-63: the removal, the no-progress error, exit(1).
MainRemoveProcessed(s) ==
    /\ pc[s] = "main_for"
    /\ i[s] > Len(remaining_targets[s])
    /\ LET left == remove_processed(remaining_targets[s], processed_indices[s]) IN
         /\ remaining_targets' = [remaining_targets EXCEPT ![s] = left]
         /\ IF Len(left) = initial_len[s]
            THEN /\ pc' = [pc EXCEPT ![s] = "exited"]
                 /\ ret' = [ret EXCEPT ![s] = <<"exit1", "Configuration processing error",
                                                "Unable to process all targets">>]
            ELSE /\ pc' = [pc EXCEPT ![s] = "main_while"]
                 /\ ret' = ret
    /\ UNCHANGED <<env, lock, output, computed_addresses, initial_len, processed_indices,
                   i, run_config, results, result, pass, mined>>

\* The argument vectors explored: no argument, a config file, and the
\* standalone arguments with each of them well or ill formed, or missing.
StandaloneArgs ==
    { <<JunkArg>> \o a : a \in
        UNION { [1..n -> {HexArg(20), HexArg(32), HexArg(19), JunkArg}
                          \cup {U8Arg(v) : v \in ThresholdValues}] : n \in 1..3 } }
    \cup
    { <<JunkArg, HexArg(20), HexArg(20), HexArg(32)>> \o a : a \in
        UNION { [1..n -> {JunkArg} \cup {U8Arg(v) : v \in ThresholdValues}] : n \in 0..3 } }

InitMain ==
    /\ \/ /\ args \in {<<JunkArg>>} \cup StandaloneArgs
          /\ config_file = [factory_address |-> GoodAddress, calling_address |-> GoodAddress,
                            gpu_device |-> 255, targets |-> <<>>]
          /\ bin_files = BinFolder(<<>>)
       \/ /\ args = <<JunkArg, PathArg>>
          /\ \E ch \in ChoiceSeqs(PipelineChoices, MaxTargets) :
                /\ config_file = [factory_address |-> GoodAddress,
                                  calling_address |-> GoodAddress,
                                  gpu_device |-> 255,
                                  targets |-> Targets(ch)]
                /\ bin_files = BinFolder(ch)
    /\ InitSessions({1}, "main")

NextMain ==
    \/ \E s \in Sessions : Main(s)
    \/ \E s \in Sessions : RunWithArgs(s)
    \/ \E s \in Sessions : CliEngineReturn(s)
    \/ \E s \in Sessions : RunWithConfigFile(s)
    \/ \E s \in Sessions : MainProcessConfig(s)
    \/ \E s \in Sessions : MainWhile(s)
    \/ \E s \in Sessions : MainFor(s)
    \/ \E s \in Sessions : MainRemoveProcessed(s)

SpecMain == InitMain /\ [][NextMain]_vars

\* ===================================================================== claims
\* The placeholders ${NAME} that the bin file of a target references.
References(target) ==
    { bin_files[target.name][k][2] :
        k \in { j \in 1..Len(bin_files[target.name]) : bin_files[target.name][j][1] = "ph" } }

\* ConfigFile::new has returned Ok to session s.
Validated(s) == pc[s] \notin {"load", "rejected"}

\* The target session s is at in its pass, when there is one.
AtTarget(s) == i[s] \in 1..Len(remaining_targets[s])
Current(s) == remaining_targets[s][i[s]]

Unable == <<"Err", "Unable to process all targets">>
EngineFault == <<"Err", "engine fault">>

\* ---- C1
ReadyNow(s) == References(Current(s)) \subseteq DOMAIN computed_addresses[s]

GateHolds ==
    \A s \in Sessions :
        pc[s] \in {"to_run_config", "engine"} => AtTarget(s) /\ ReadyNow(s)

GateStep ==
    \A s \in Sessions :
        (pc[s] = "for" /\ AtTarget(s) /\ (pc'[s] # pc[s] \/ i'[s] # i[s])) =>
            /\ ReadyNow(s) => (pc'[s] = "to_run_config" /\ i'[s] = i[s])
            /\ ~ReadyNow(s) => (pc'[s] = "for" /\ i'[s] = i[s] + 1
                                 /\ processed_indices'[s] = processed_indices[s])

\* C1: a target is handed to to_run_config and to the engine only if every
\* placeholder its bin file references is a key of computed_addresses when it
\* is scanned, and a target that is ready when scanned enters to_run_config in
\* that same pass (it is never skipped).
CheckC1 == [](GateHolds) /\ [][GateStep]_vars

\* A target that references a placeholder has been handed to the engine.
WitnessC1 ==
    \E s \in Sessions :
        pc[s] = "engine" /\ AtTarget(s) /\ References(Current(s)) # {}

\* ---- C2
MainUnable(s) ==
    ret[s] = <<"exit1", "Configuration processing error", "Unable to process all targets">>

\* C2 as stated: the binary's process_config does not end the session with
\* "Unable to process all targets" while a remaining target has every
\* placeholder it references in computed_addresses.
CexC2 ==
    \A s \in Sessions : MainUnable(s) =>
        ~\E k \in 1..Len(remaining_targets[s]) :
            References(remaining_targets[s][k]) \subseteq DOMAIN computed_addresses[s]

\* ---- C3
MinedInPass(s, n) == { k \in 1..Len(mined[s]) : mined[s][k].pass = n }

\* The step that ends a pass: the for loop is over and the removal is made.
PassEnds(s) == pc[s] = "for" /\ ~AtTarget(s) /\ pc'[s] # "for"

DeadlockStep ==
    \A s \in Sessions :
        /\ (ret'[s] = Unable /\ ret[s] # Unable) =>
              /\ PassEnds(s)
              /\ remaining_targets[s] # <<>>
              /\ Len(remaining_targets'[s]) = Len(remaining_targets[s])
              /\ pc'[s] = "returned"
        /\ PassEnds(s) =>
              /\ ret'[s] = Unable <=> Len(remaining_targets'[s]) = Len(remaining_targets[s])
              /\ MinedInPass(s, pass[s]) # {} => ret'[s] # Unable
              /\ Len(remaining_targets[s]) - Len(remaining_targets'[s])
                    = Cardinality(MinedInPass(s, pass[s]))

InPass(s) ==
    pc[s] \in {"for", "to_run_config", "engine", "record_lock", "record_write",
               "record_unlock", "store"}

\* During a pass the remaining set is not empty and keeps the size it had when
\* the pass began.
PassSize ==
    \A s \in Sessions :
        InPass(s) => remaining_targets[s] # <<>> /\ Len(remaining_targets[s]) = initial_len[s]

PassStep ==
    \A s \in Sessions :
        /\ (InPass(s) /\ ~PassEnds(s)) => remaining_targets'[s] = remaining_targets[s]
        /\ (pc[s] = "while" /\ pc'[s] = "for") => remaining_targets'[s] = remaining_targets[s]

\* C3: the resolver returns "Unable to process all targets" exactly at the end
\* of a full pass over a non-empty remaining set that leaves the set the size
\* it had; a pass that mined a target does not end in that error.
CheckC3 == [](PassSize) /\ [][PassStep /\ DeadlockStep]_vars

\* A second pass made no progress after a first one that did.
WitnessC3 == \E s \in Sessions : ret[s] = Unable /\ pass[s] = 2

\* ---- C4
TargetIndices == 1..Len(config_file.targets)

\* Target a references the placeholder that target b defines.
DependsOn(a, b) ==
    /\ config_file.targets[b].placeholder_name # {}
    /\ config_file.targets[b].placeholder_name \subseteq References(config_file.targets[a])

RECURSIVE ReachesIn(_, _, _)
ReachesIn(a, b, n) ==
    \/ DependsOn(a, b)
    \/ n > 1 /\ \E c \in TargetIndices : DependsOn(a, c) /\ ReachesIn(c, b, n - 1)

Cyclic == \E a \in TargetIndices : ReachesIn(a, a, Len(config_file.targets))
SelfLoop == \E a \in TargetIndices : DependsOn(a, a)

\* C4 as stated: no config whose targets form a dependency cycle, of any
\* length, passes validation.
CexC4 == \A s \in Sessions : Validated(s) => ~Cyclic

\* C4 amended: no config in which a target references its own placeholder
\* passes validation (longer cycles do pass).
CheckC4 == \A s \in Sessions : Validated(s) => ~SelfLoop

\* A self-referencing config was rejected as a circular dependency.
WitnessC4 ==
    \E s \in Sessions :
        /\ pc[s] = "rejected" /\ SelfLoop
        /\ ret[s][2] = "Circular dependency detected for placeholder"

\* ---- C5
Closed ==
    \A a \in TargetIndices : \A n \in References(config_file.targets[a]) :
        \E b \in TargetIndices : config_file.targets[b].placeholder_name = {n}

PlaceholderRejected(s) ==
    /\ pc[s] = "rejected"
    /\ ret[s][2] \in {"Missing placeholder", "Circular dependency detected for placeholder"}

\* C5: validate_placeholders returns Ok iff every referenced placeholder is
\* defined by some target and no target references its own placeholder; and
\* ConfigFile::new rejects or accepts the config accordingly.
CheckC5 ==
    /\ validate_placeholders(config_file, bin_files).ok <=> (Closed /\ ~SelfLoop)
    /\ \A s \in Sessions : pc[s] # "load" =>
          /\ (Closed /\ ~SelfLoop) => ~PlaceholderRejected(s)
          /\ ~(Closed /\ ~SelfLoop) => pc[s] = "rejected"

\* A config whose targets reference placeholders was accepted.
WitnessC5 ==
    \E s \in Sessions :
        /\ pc[s] = "process_config"
        /\ \E a, b \in TargetIndices :
              a # b /\ Cardinality(References(config_file.targets[a])) = 2
                    /\ References(config_file.targets[b]) # {}

\* ---- C6
UniqueDefinitions ==
    \A a, b \in TargetIndices :
        (a # b /\ config_file.targets[a].placeholder_name # {}) =>
            config_file.targets[a].placeholder_name # config_file.targets[b].placeholder_name

\* C6 as stated: in every config that validation accepts, each placeholder
\* name is defined by at most one target.
CexC6 == \A s \in Sessions : Validated(s) => UniqueDefinitions

\* ---- C7
\* Scenario S3: two targets, a defines a placeholder and references nothing,
\* b references exactly that placeholder.
IsS3(a, b) ==
    /\ Len(config_file.targets) = 2 /\ {a, b} = {1, 2}
    /\ config_file.targets[a].placeholder_name # {}
    /\ References(config_file.targets[a]) = {}
    /\ References(config_file.targets[b]) = config_file.targets[a].placeholder_name
    /\ config_file.targets[b].placeholder_name # config_file.targets[a].placeholder_name

Mined(t, n) == [target |-> config_file.targets[t].name, pass |-> n]

CexC8 == \A s \in Sessions : Validated(s) => pc[s] # "panicked"

\* ---- C9
\* C9 as stated: no RunConfig reaches an engine with a leading threshold above
\* 20, or with a total threshold above 20 other than 255.
CexC9 ==
    \A s \in Sessions : \A rc \in run_config[s] :
        /\ rc.leading_zeroes_threshold <= 20
        /\ rc.total_zeroes_threshold <= 20 \/ rc.total_zeroes_threshold = 255

\* ---- C10
Holding(s) == lock = s

LockScope ==
    \A s \in Sessions :
        /\ Holding(s) <=> pc[s] \in {"header_write", "header_unlock", "record_write",
                                     "record_unlock", "footer_write", "footer_unlock"}
        /\ pc[s] \in {"engine", "returned", "panicked", "rejected"} => ~Holding(s)

\* A step of s that keeps the lock is the one writeln, and the step after it
\* is the unlock.
LockStep ==
    \A s \in Sessions :
        /\ (Holding(s) /\ lock' = s /\ pc'[s] # pc[s]) =>
              /\ pc[s] \in {"header_write", "record_write", "footer_write"}
              /\ Len(output') = Len(output) + 1
              /\ output'[Len(output')].session = s
              /\ pc'[s] \in {"header_unlock", "record_unlock", "footer_unlock"}
        /\ (pc[s] \in {"header_unlock", "record_unlock", "footer_unlock"} /\ pc'[s] # pc[s]) =>
              lock' # s /\ output' = output

\* C10: a session holds the lock only from a lock_exclusive through exactly
\* one writeln to the unlock; never while an engine runs, and never after
\* process_config has returned.
CheckC10 == [](LockScope) /\ [][LockStep]_vars

\* An engine runs after the session has locked, written and unlocked.
WitnessC10 ==
    \E s \in Sessions : pc[s] = "engine" /\ output # <<>> /\ lock = 0

\* ---- C11
\* The session has left process_config, by a return or by a panic.
Ended(s) == pc[s] \in {"returned", "panicked"}

\* The lines of the given kind that session s has in the output file.
LinesOf(s, kind) ==
    { k \in 1..Len(output) : output[k].session = s /\ output[k].kind = kind }

InWriteSection(s) ==
    pc[s] \in {"header_write", "header_unlock", "record_write", "record_unlock",
               "footer_write", "footer_unlock"}

\* C11: of two sessions sharing the output file no two are inside their write
\* section at the same time, and every session that has ended, whatever way
\* it ended, has exactly one Start line and exactly one End line in the file.
CexC11 ==
    /\ \A s, t \in Sessions : s # t => ~(InWriteSection(s) /\ InWriteSection(t))
    /\ \A s \in Sessions :
          Ended(s) => /\ Cardinality(LinesOf(s, "Start")) = 1
                      /\ Cardinality(LinesOf(s, "End")) = 1

\* ---- C12
\* The lines session s has appended, in file order.
SessionLines(s) == SelectSeq(output, LAMBDA l : l.session = s)

\* The session has a record computed but not yet written.
RecordPending(s) == pc[s] \in {"record_lock", "record_write"}

RecordOrder(s) ==
    LET L == SessionLines(s)
        R == SelectSeq(L, LAMBDA l : l.kind = "Record")
        written == Len(mined[s]) - (IF RecordPending(s) THEN 1 ELSE 0) IN
      /\ L # <<>> => L[1].kind = "Start"
      /\ \A k \in 2..Len(L) : L[k].kind # "Start"
      /\ \A k \in 1..Len(L) : L[k].kind = "End" => k = Len(L)
      /\ Len(R) = written
      /\ \A k \in 1..Len(R) : R[k].target = mined[s][k].target
      /\ \A j, k \in 1..Len(R) : j # k => R[j].target # R[k].target
      /\ ret[s] = <<"Ok">> =>
            /\ L[Len(L)].kind = "End"
            /\ Len(R) = Len(config_file.targets)

\* C12: the lines of a session are one Start line, then one record per mined
\* target in mining order, then at most one End line which is the last; a
\* session that returned Ok has as many records as the config has targets.
CheckC12 == \A s \in Sessions : RecordOrder(s)

\* A session returned Ok after mining two targets.
WitnessC12 ==
    \E s \in Sessions :
        /\ ret[s] = <<"Ok">>
        /\ Len(SessionLines(s)) = 4
        /\ Len(config_file.targets) = 2

\* ---- C13
\* The substituted bin text that the RunConfig of session s was hashed from.
SubstitutedText(s) == (CHOOSE rc \in run_config[s] : TRUE).init_code_hash[2]

Substituted(s) ==
    LET source == bin_files[Current(s).name]
        text == SubstitutedText(s) IN
      /\ Len(text) = Len(source)
      /\ captures_iter(text) = <<>>
      /\ \A k \in 1..Len(source) :
            IF source[k][1] = "ph"
            THEN /\ source[k][2] \in DOMAIN computed_addresses[s]
                 /\ text[k] = <<"hex", computed_addresses[s][source[k][2]]>>
            ELSE text[k] = source[k]

\* C13: a to_run_config that the resolver calls never fails to decode the
\* substituted text, and the text it hashes has no placeholder left: every
\* reference is replaced by the hex of the address stored under its name and
\* the rest of the text is unchanged.
CheckC13 ==
    \A s \in Sessions :
        /\ ret[s] # <<"panic", "hex::decode">>
        /\ run_config[s] # {} => Substituted(s)

\* An engine runs on a text in which two references were replaced.
WitnessC13 ==
    \E s \in Sessions :
        /\ pc[s] = "engine"
        /\ Cardinality(References(Current(s))) = 2

\* ---- C14
\* Every mapping of computed_addresses survives the step unchanged.
MappingsKept ==
    \A s \in Sessions : \A n \in DOMAIN computed_addresses[s] :
        /\ n \in DOMAIN computed_addresses'[s]
        /\ computed_addresses'[s][n] = computed_addresses[s][n]

\* C14: computed_addresses is empty when the session starts, and no step of
\* the session removes a key or changes the address a name is mapped to.
CexC14 ==
    /\ [](\A s \in Sessions : pc[s] \in {"load", "process_config", "header_lock"} =>
                                   computed_addresses[s] = EmptyMap)
    /\ [][MappingsKept]_vars

\* ---- C15
\* The integer a reward string spells.
RECURSIVE RewardValue(_)
RewardValue(digits) ==
    IF digits = <<>> THEN 0
    ELSE RewardValue(SubSeq(digits, 1, Len(digits) - 1)) * 10 + digits[Len(digits)]

\* Candidate c is at least as good as d: a greater reward, or the same reward
\* and a higher leading, or the same of both and a salt that is not greater.
Beats(c, d) ==
    \/ RewardValue(c.reward) > RewardValue(d.reward)
    \/ /\ RewardValue(c.reward) = RewardValue(d.reward)
       /\ \/ c.leading > d.leading
          \/ c.leading = d.leading /\ string_le(c.salt, d.salt)

\* C15: the candidate picked for a mined target, which is the one written to
\* the output file, is one of the returned candidates, has the maximal reward
\* among them, and among those of maximal reward has the higher leading and
\* then the lexicographically smaller salt.
CexC15 ==
    \A s \in Sessions : results[s] # <<>> =>
        \A c \in result[s] :
            /\ \E k \in 1..Len(results[s]) : results[s][k] = c
            /\ \A k \in 1..Len(results[s]) : Beats(c, results[s][k])
            /\ pc[s] \in {"record_unlock", "store"} =>
                  SessionLines(s)[Len(SessionLines(s))].candidate = {c}

\* ---- C16
\* Reference k of target t names a placeholder that no target defines.
Undefined(t, k) ==
    \A b \in TargetIndices :
        config_file.targets[b].placeholder_name #
            {captures_iter(bin_files[config_file.targets[t].name])[k]}

\* Reference k of target t names the placeholder that t itself defines.
OwnReference(t, k) ==
    config_file.targets[t].placeholder_name =
        {captures_iter(bin_files[config_file.targets[t].name])[k]}

\* The references that validation objects to, as <<target, reference>>.
Faults ==
    { f \in UNION { {<<t, k>> : k \in 1..Len(captures_iter(bin_files[config_file.targets[t].name]))} :
                       t \in TargetIndices } :
        Undefined(f[1], f[2]) \/ OwnReference(f[1], f[2]) }

\* The first of them in target order, then in order of appearance.
FirstFault ==
    CHOOSE f \in Faults :
        \A g \in Faults : f[1] < g[1] \/ (f[1] = g[1] /\ f[2] <= g[2])

MissingError(s) == pc[s] = "rejected" /\ ret[s][2] = "Missing placeholder"
CircularError(s) ==
    pc[s] = "rejected" /\ ret[s][2] = "Circular dependency detected for placeholder"

\* C16 as stated: a config with a reference that no target defines fails with
\* the missing-placeholder error, and a config in which a target references
\* its own placeholder fails with the circular-dependency error.
CexC16 ==
    \A s \in Sessions : pc[s] # "load" =>
        /\ ~Closed => MissingError(s)
        /\ SelfLoop => CircularError(s)

\* C16 amended: validation fails on the first objectionable reference, in
\* target order and then in order of appearance, with the missing-placeholder
\* error if no target defines the name and with the circular-dependency error
\* if the name is the target's own placeholder; so a reference of a target to
\* its own placeholder is never reported as missing, and a config whose
\* faults are all of one kind fails with the error of that kind.
CheckC16 ==
    \A s \in Sessions : (pc[s] # "load" /\ Faults # {}) =>
        /\ IF Undefined(FirstFault[1], FirstFault[2]) THEN MissingError(s) ELSE CircularError(s)
        /\ ret[s][3] = captures_iter(bin_files[config_file.targets[FirstFault[1]].name])[FirstFault[2]]
        /\ MissingError(s) => \A t \in TargetIndices : config_file.targets[t].placeholder_name # {ret[s][3]}
        /\ (~Closed /\ ~SelfLoop) => MissingError(s)
        /\ (Closed /\ SelfLoop) => CircularError(s)

\* A config with both kinds of fault was rejected with the circular error.
WitnessC16 ==
    \E s \in Sessions : CircularError(s) /\ ~Closed /\ SelfLoop

\* ---- C17
\* The parts of the error of session s after its "Err" tag.
ErrorParts(s) == { ret[s][k] : k \in 2..Len(ret[s]) }

\* C17: when the resolver fails because a pass made no progress, the error it
\* returns names every target that remains unprocessed.
CexC17 ==
    \A s \in Sessions :
        (ret[s] # <<>> /\ ret[s][1] = "Err" /\ "Unable to process all targets" \in ErrorParts(s)) =>
            \A k \in 1..Len(remaining_targets[s]) :
                remaining_targets[s][k].name \in ErrorParts(s)

\* ---- C18
\* The names of the targets mined so far in the current pass of session s.
MinedThisPass(s) ==
    LET m == SelectSeq(mined[s], LAMBDA e : e.pass = pass[s]) IN
      [k \in 1..Len(m) |-> m[k].target]

\* Session s has a target between the call of the engine and the store.
Mining(s) == pc[s] \in {"engine", "record_lock", "record_write", "record_unlock", "store"}

\* One target at a time, in the order of remaining_targets: the targets
\* processed in the pass are at increasing indices before the for loop's, the
\* targets mined in the pass are those and the one being stored, in that
\* order, and an engine starts only when every earlier record is written.
Sequential(s) ==
    LET done == processed_indices[s] IN
      /\ \A k \in 1..Len(done) : done[k] \in 1..Len(remaining_targets[s]) /\ done[k] < i[s]
      /\ \A j, k \in 1..Len(done) : j < k => done[j] < done[k]
      /\ MinedThisPass(s) =
            [k \in 1..Len(done) |-> remaining_targets[s][done[k]].name]
              \o (IF Mining(s) /\ pc[s] # "engine" THEN <<Current(s).name>> ELSE <<>>)
      /\ pc[s] \in {"to_run_config", "engine"} =>
            /\ result[s] = {}
            /\ Cardinality(LinesOf(s, "Record")) = Len(mined[s])

\* The removal after a pass deletes the targets mined in the pass and keeps
\* the others in their order.
RemovalStep ==
    \A s \in Sessions : PassEnds(s) =>
        remaining_targets'[s] =
            SelectSeq(remaining_targets[s],
                      LAMBDA t : \A k \in 1..Len(MinedThisPass(s)) : MinedThisPass(s)[k] # t.name)

\* C18: a session mines one target at a time; within a pass the ready
\* targets are mined in the order of remaining_targets; the removal after a
\* pass deletes exactly the targets mined in it and keeps the order of the
\* rest.
CheckC18 == [](\A s \in Sessions : InPass(s) => Sequential(s)) /\ [][RemovalStep]_vars

\* A pass that skipped its first target and mined the next two has ended.
WitnessC18 ==
    \E s \in Sessions :
        /\ pc[s] = "while" /\ pass[s] = 1
        /\ Len(mined[s]) = 2 /\ Len(remaining_targets[s]) = 1
        /\ remaining_targets[s][1].name = config_file.targets[1].name

\* ---- C19
\* The placeholder graph of the config is closed, acyclic and has unique
\* definitions.
ValidGraph == Closed /\ ~Cyclic /\ UniqueDefinitions

\* Every target of the config was mined, each exactly once.
MinedEachOnce(s) ==
    \A t \in TargetIndices :
        Cardinality({ k \in 1..Len(mined[s]) :
                        mined[s][k].target = config_file.targets[t].name }) = 1

\* C19: on a config with a valid placeholder graph, a session whose engine
\* calls all returned results never ends in "Unable to process all targets"
\* and never ends otherwise than by returning Ok, with the End line written
\* and every target mined exactly once.
CexC19 ==
    \A s \in Sessions : (Validated(s) /\ ValidGraph /\ ret[s] # EngineFault) =>
        /\ ret[s] # Unable
        /\ Ended(s) =>
              /\ ret[s] = <<"Ok">>
              /\ Cardinality(LinesOf(s, "End")) = 1
              /\ MinedEachOnce(s)

\* ---- C20
\* The passes begun never exceed the number of targets, and no target is
\* mined twice.
BoundedPasses ==
    \A s \in Sessions :
        /\ Validated(s) => pass[s] <= Len(config_file.targets)
        /\ \A j, k \in 1..Len(mined[s]) : j # k => mined[s][j].target # mined[s][k].target

\* A pass ends by removing at least one target or by ending the session.
Progress ==
    \A s \in Sessions : PassEnds(s) =>
        \/ Len(remaining_targets'[s]) < Len(remaining_targets[s])
        \/ pc'[s] = "returned"

\* C20: a session on a config with N targets begins at most N passes, every
\* pass removes a target from remaining_targets or ends the session, no
\* target is mined more than once, and when every engine call returns the
\* session ends.
CheckC20 ==
    /\ [](BoundedPasses)
    /\ [][Progress]_vars
    /\ <>(\A s \in Sessions : pc[s] \in {"returned", "panicked", "rejected"})

\* A session on three targets has ended after three passes.
WitnessC20 ==
    \E s \in Sessions :
        /\ pc[s] = "returned"
        /\ pass[s] = 3 /\ Len(config_file.targets) = 3

\* ---- C21
\* The target of the config that has the given name.
TargetNamed(name) ==
    config_file.targets[CHOOSE t \in TargetIndices : config_file.targets[t].name = name]

\* Record line k of the file is written and its target's address is stored.
Stored(k) ==
    LET s == output[k].session IN
      /\ output[k].kind = "Record"
      /\ ~(pc[s] \in {"record_unlock", "store"} /\ Current(s).name = output[k].target)

\* The address on a record line.
RecordAddress(k) == (CHOOSE c \in output[k].candidate : TRUE).address

\* C21: the address stored under the placeholder of a target is the address
\* on that target's record, and the init hash on the record of a target that
\* references the placeholder is that of a text holding exactly that address
\* in the place of the reference.
CexC21 ==
    \A k \in 1..Len(output) : Stored(k) =>
        LET s == output[k].session IN
          /\ \A n \in TargetNamed(output[k].target).placeholder_name :
                /\ n \in DOMAIN computed_addresses[s]
                /\ computed_addresses[s][n] = RecordAddress(k)
          /\ \A j \in 1..Len(output) :
                (output[j].kind = "Record" /\ output[j].session = s /\ j > k) =>
                    LET source == bin_files[output[j].target]
                        text == output[j].init_hash[2] IN
                      \A p \in 1..Len(source) :
                          (source[p][1] = "ph" /\
                           {source[p][2]} = TargetNamed(output[k].target).placeholder_name) =>
                              text[p] = <<"hex", RecordAddress(k)>>

====
